---- MODULE Spec2Model ----
(***************************************************************************)
(* Model of blockchain/blockchain.py: class Block (fields, calculate_hash) *)
(* and class Blockchain (construction with a mined genesis block,          *)
(* add_block, the proof_of_work loop, is_chain_valid, tamper_with_block).  *)
(*                                                                         *)
(* Strings are sequences of character codes, so that the concatenation in  *)
(* calculate_hash, the "0" * difficulty prefix and str.startswith are      *)
(* computed on characters.  A timestamp is a number of tenths of a second  *)
(* (15 is the float 1.5, printed "1.5").  hashlib.sha256 is outside the    *)
(* repository and its 32-bit word arithmetic is beyond TLC's integers: it  *)
(* is modelled by a deterministic digest of the same input bytes, HexLen   *)
(* lowercase hex characters wide (64 for the real function).  No formula   *)
(* below relies on the digest being free of collisions.                    *)
(***************************************************************************)
EXTENDS Integers, Sequences, FiniteSets, TLC

VARIABLES
    difficulty,  \* Blockchain.difficulty
    chain,       \* Blockchain.chain, a sequence of Block records (1-based here)
    pc,          \* "pow": at the head of proof_of_work's loop; "idle": between calls
    call,        \* the running (or last) public call and its arguments
    block,       \* proof_of_work's local `block` (the object being mined)
    attempts,    \* proof_of_work's local `attempts`
    result       \* what the last call returned, raised and printed

vars == <<difficulty, chain, pc, call, block, attempts, result>>

---------------------------------------------------------------------------
(* Bounds of the model *)

\* longest chain built; add_block is not started on a chain of this length
MaxLen == 3

\* largest nonce the mining loop is followed to
MaxNonce == 1500

\* width of the modelled digest, in hex characters
HexLen == 3

\* the difficulties a chain is constructed with (negative: "0" * d is "")
Difficulties == {-1, 0, 1}

\* the default of Blockchain.__init__'s difficulty parameter
DefaultDifficulty == 2

\* values time.time() returns, in tenths of a second
Timestamps == {10, 15}

---------------------------------------------------------------------------
(* Strings *)

Chr0 == 48

\* "Genesis Block"
GenesisData == <<71, 101, 110, 101, 115, 105, 115, 32, 66, 108, 111, 99, 107>>

\* "A", "B", "X", "A-modified"
DataA == <<65>>
DataB == <<66>>
DataX == <<88>>
DataAModified == <<65, 45, 109, 111, 100, 105, 102, 105, 101, 100>>

\* payloads given to add_block and tamper_with_block
Payloads == {DataA, DataX}

\* str(n) for an int
RECURSIVE StrNat(_)
StrNat(n) ==
    IF n < 10 THEN <<Chr0 + n>> ELSE Append(StrNat(n \div 10), Chr0 + (n % 10))

StrInt(n) == IF n < 0 THEN <<45>> \o StrNat(0 - n) ELSE StrNat(n)

\* str(t) for a float with one decimal, t given in tenths: 15 -> "1.5", 10 -> "1.0"
StrFloat(t) == StrNat(t \div 10) \o <<46>> \o <<Chr0 + (t % 10)>>

\* "0" * (n + 1): a prefix one character too long
ZerosOneMore(n) == [i \in 1..(n + 1) |-> Chr0]

\* "0" * max(n, 1): at least one zero is asked for
ZerosAtLeastOne(n) == [i \in 1..(IF n < 1 THEN 1 ELSE n) |-> Chr0]

\* "0" * n (the empty string for n <= 0)
Zeros(n) == [i \in 1..n |-> Chr0]

\* s.startswith(p)
StartsWith(s, p) == Len(p) <= Len(s) /\ SubSeq(s, 1, Len(p)) = p

---------------------------------------------------------------------------
(* The digest *)

RECURSIVE Pow16(_)
Pow16(n) == IF n = 0 THEN 1 ELSE 16 * Pow16(n - 1)

Modulus == Pow16(HexLen)

RECURSIVE Absorb(_, _, _)
Absorb(h, s, i) ==
    IF i > Len(s) THEN h ELSE Absorb((h * 131 + s[i]) % Modulus, s, i + 1)

HexChar(d) == IF d < 10 THEN Chr0 + d ELSE 87 + d

\* n as HexLen lowercase hex characters, most significant first
HexDigest(n) ==
    [i \in 1..HexLen |-> HexChar((n \div Pow16(HexLen - i)) % 16)]

\* hashlib.sha256(s.encode()).hexdigest()
Sha256Hex(s) == HexDigest((Absorb(7, s, 1) * 25173 + 13849) % Modulus)

---------------------------------------------------------------------------
(* class Block *)

\* Block.calculate_hash
calculate_hash(b) ==
    Sha256Hex(StrInt(b.index) \o StrFloat(b.timestamp) \o b.data
              \o b.previous_hash \o StrInt(b.nonce))

\* Block.__init__
Block(index, timestamp, data, previous_hash) ==
    LET b == [index |-> index, timestamp |-> timestamp, data |-> data,
              previous_hash |-> previous_hash, nonce |-> 0, hash |-> <<>>]
    IN  [b EXCEPT !.hash = calculate_hash(b)]

\* no Block object (a local that is not bound)
NoBlock ==
    [index |-> -1, timestamp |-> 0, data |-> <<>>, previous_hash |-> <<>>,
     nonce |-> 0, hash |-> <<>>]

---------------------------------------------------------------------------
(* class Blockchain *)

\* get_last_block returning chain[0] instead of chain[-1]
get_first_block == chain[1]

\* Blockchain.get_last_block
get_last_block == chain[Len(chain)]

\* the result of a call that has not returned yet
Running ==
    [status |-> "running", valid |-> FALSE, diag |-> "", at |-> 0,
     block |-> NoBlock, attempts |-> 0]

\* Blockchain.__init__ up to the call of proof_of_work in create_genesis_block
Construct(ds) ==
    \E d \in ds, t \in Timestamps :
        /\ difficulty = d
        /\ chain = <<>>
        /\ pc = "pow"
        /\ call = [op |-> "Blockchain", index |-> 0, data |-> <<>>]
        /\ block = Block(0, t, GenesisData, <<Chr0>>)
        /\ attempts = 0
        /\ result = Running

Init == Construct(Difficulties)

\* the retrying iteration with block.nonce += 2: every other nonce is skipped
proof_of_work_retry_skip ==
    /\ pc = "pow"
    /\ block.nonce < MaxNonce
    /\ LET h == calculate_hash(block) IN
        /\ ~StartsWith(h, Zeros(difficulty))
        /\ block' = [block EXCEPT !.hash = h, !.nonce = @ + 2]
        /\ attempts' = attempts + 1
    /\ UNCHANGED <<difficulty, chain, pc, call, result>>

\* proof_of_work, one iteration of the loop whose hash lacks the prefix
proof_of_work_retry ==
    /\ pc = "pow"
    /\ block.nonce < MaxNonce
    /\ LET h == calculate_hash(block) IN
        /\ ~StartsWith(h, Zeros(difficulty))
        /\ block' = [block EXCEPT !.hash = h, !.nonce = @ + 1]
        /\ attempts' = attempts + 1
    /\ UNCHANGED <<difficulty, chain, pc, call, result>>

\* proof_of_work incrementing the nonce before it tests the hash, so that the
\* block returned carries the nonce after the one that was hashed
proof_of_work_return_late_nonce ==
    /\ pc = "pow"
    /\ LET h == calculate_hash(block)
           mined == [block EXCEPT !.hash = h, !.nonce = @ + 1]
       IN
        /\ StartsWith(h, Zeros(difficulty))
        /\ chain' = IF call.op = "Blockchain" THEN <<mined>> ELSE Append(chain, mined)
        /\ result' = [Running EXCEPT !.status = "returned", !.block = mined,
                                     !.attempts = attempts]
    /\ pc' = "idle"
    /\ block' = NoBlock
    /\ attempts' = 0
    /\ UNCHANGED <<difficulty, call>>

\* create_genesis_block without its call of proof_of_work: the genesis block is
\* stored as constructed, other blocks are mined
proof_of_work_return_unmined_genesis ==
    /\ pc = "pow"
    /\ LET h == calculate_hash(block)
           mined == [block EXCEPT !.hash = h]
       IN
        /\ call.op = "Blockchain" \/ StartsWith(h, Zeros(difficulty))
        /\ chain' = IF call.op = "Blockchain" THEN <<mined>> ELSE Append(chain, mined)
        /\ result' = [Running EXCEPT !.status = "returned", !.block = mined,
                                     !.attempts = attempts]
    /\ pc' = "idle"
    /\ block' = NoBlock
    /\ attempts' = 0
    /\ UNCHANGED <<difficulty, call>>

\* add_block storing the mined block with chain.insert(0, mined)
proof_of_work_return_prepend ==
    /\ pc = "pow"
    /\ LET h == calculate_hash(block)
           mined == [block EXCEPT !.hash = h]
       IN
        /\ StartsWith(h, Zeros(difficulty))
        /\ chain' = <<mined>> \o chain
        /\ result' = [Running EXCEPT !.status = "returned", !.block = mined,
                                     !.attempts = attempts]
    /\ pc' = "idle"
    /\ block' = NoBlock
    /\ attempts' = 0
    /\ UNCHANGED <<difficulty, call>>

\* proof_of_work, the iteration that finds the prefix and returns the block,
\* and the rest of its caller: __init__ stores [genesis], add_block appends
proof_of_work_return ==
    /\ pc = "pow"
    /\ LET h == calculate_hash(block)
           mined == [block EXCEPT !.hash = h]
       IN
        /\ StartsWith(h, Zeros(difficulty))
        /\ chain' = IF call.op = "Blockchain" THEN <<mined>> ELSE Append(chain, mined)
        /\ result' = [Running EXCEPT !.status = "returned", !.block = mined,
                                     !.attempts = attempts]
    /\ pc' = "idle"
    /\ block' = NoBlock
    /\ attempts' = 0
    /\ UNCHANGED <<difficulty, call>>

\* add_block numbering the new block with the index of the last block
add_block_last_index(data) ==
    /\ pc = "idle"
    /\ Len(chain) < MaxLen
    /\ \E t \in Timestamps :
        block' = Block(Len(chain) - 1, t, data, get_last_block.hash)
    /\ attempts' = 0
    /\ pc' = "pow"
    /\ call' = [op |-> "add_block", index |-> 0, data |-> data]
    /\ result' = Running
    /\ UNCHANGED <<difficulty, chain>>

\* add_block numbering the new block from 1: len(self.chain) + 1
add_block_one_based(data) ==
    /\ pc = "idle"
    /\ Len(chain) < MaxLen
    /\ \E t \in Timestamps :
        block' = Block(Len(chain) + 1, t, data, get_last_block.hash)
    /\ attempts' = 0
    /\ pc' = "pow"
    /\ call' = [op |-> "add_block", index |-> 0, data |-> data]
    /\ result' = Running
    /\ UNCHANGED <<difficulty, chain>>

\* add_block, up to the call of proof_of_work
add_block(data) ==
    /\ pc = "idle"
    /\ Len(chain) < MaxLen
    /\ \E t \in Timestamps :
        block' = Block(Len(chain), t, data, get_last_block.hash)
    /\ attempts' = 0
    /\ pc' = "pow"
    /\ call' = [op |-> "add_block", index |-> 0, data |-> data]
    /\ result' = Running
    /\ UNCHANGED <<difficulty, chain>>

\* is_chain_valid's loop without the comparison of previous_hash
RECURSIVE ValidateNoLink(_, _, _)
ValidateNoLink(c, d, i) ==
    IF i >= Len(c) THEN [valid |-> TRUE, diag |-> "", at |-> 0]
    ELSE LET current == c[i + 1]
         IN  IF current.hash # calculate_hash(current)
                 THEN [valid |-> FALSE, diag |-> "hash mismatch", at |-> i]
             ELSE IF ~StartsWith(current.hash, Zeros(d))
                 THEN [valid |-> FALSE, diag |-> "does not satisfy difficulty", at |-> i]
             ELSE ValidateNoLink(c, d, i + 1)

\* is_chain_valid's loop without the check of the difficulty prefix
RECURSIVE ValidateNoDifficulty(_, _, _)
ValidateNoDifficulty(c, d, i) ==
    IF i >= Len(c) THEN [valid |-> TRUE, diag |-> "", at |-> 0]
    ELSE LET current == c[i + 1]
             previous == c[i]
         IN  IF current.previous_hash # previous.hash
                 THEN [valid |-> FALSE, diag |-> "previous_hash mismatch", at |-> i]
             ELSE IF current.hash # calculate_hash(current)
                 THEN [valid |-> FALSE, diag |-> "hash mismatch", at |-> i]
             ELSE ValidateNoDifficulty(c, d, i + 1)

\* is_chain_valid checking the last block only
ValidateLastOnly(c, d, i) ==
    IF Len(c) < 2 THEN [valid |-> TRUE, diag |-> "", at |-> 0]
    ELSE LET k == Len(c) - 1
             current == c[k + 1]
             previous == c[k]
         IN  IF current.previous_hash # previous.hash
                 THEN [valid |-> FALSE, diag |-> "previous_hash mismatch", at |-> k]
             ELSE IF current.hash # calculate_hash(current)
                 THEN [valid |-> FALSE, diag |-> "hash mismatch", at |-> k]
             ELSE IF ~StartsWith(current.hash, Zeros(d))
                 THEN [valid |-> FALSE, diag |-> "does not satisfy difficulty", at |-> k]
             ELSE [valid |-> TRUE, diag |-> "", at |-> 0]

\* is_chain_valid's loop from Python index i on: the first failing check of the
\* first failing block (what is printed), or no failure
RECURSIVE ValidateFrom(_, _, _)
ValidateFrom(c, d, i) ==
    IF i >= Len(c) THEN [valid |-> TRUE, diag |-> "", at |-> 0]
    ELSE LET current == c[i + 1]
             previous == c[i]
         IN  IF current.previous_hash # previous.hash
                 THEN [valid |-> FALSE, diag |-> "previous_hash mismatch", at |-> i]
             ELSE IF current.hash # calculate_hash(current)
                 THEN [valid |-> FALSE, diag |-> "hash mismatch", at |-> i]
             ELSE IF ~StartsWith(current.hash, Zeros(d))
                 THEN [valid |-> FALSE, diag |-> "does not satisfy difficulty", at |-> i]
             ELSE ValidateFrom(c, d, i + 1)

\* is_chain_valid with range(2, len(self.chain)): block 1 is skipped
ValidateSkipFirst(c, d) == ValidateFrom(c, d, 2)

\* what is_chain_valid computes on chain c at difficulty d
Validate(c, d) == ValidateFrom(c, d, 1)

\* Blockchain.is_chain_valid
is_chain_valid ==
    /\ pc = "idle"
    /\ call' = [op |-> "is_chain_valid", index |-> 0, data |-> <<>>]
    /\ LET v == Validate(chain, difficulty) IN
        result' = [Running EXCEPT !.status = "returned", !.valid = v.valid,
                                  !.diag = v.diag, !.at = v.at]
    /\ UNCHANGED <<difficulty, chain, pc, block, attempts>>

\* the guard with index < 0 in place of index <= 0
TamperOutOfRangeGenesis(index, len) == index < 0 \/ index >= len

\* the guard of tamper_with_block that raises IndexError
TamperOutOfRange(index, len) == index <= 0 \/ index >= len

\* the two assignments without the second: the stored hash is not refreshed
TamperedNoRefresh(c, index, new_data) ==
    [c EXCEPT ![index + 1] = [c[index + 1] EXCEPT !.data = new_data]]

\* the two assignments, and the block's nonce set back to 0
TamperedResetNonce(c, index, new_data) ==
    LET b == [c[index + 1] EXCEPT !.data = new_data, !.nonce = 0] IN
    [c EXCEPT ![index + 1] = [b EXCEPT !.hash = calculate_hash(b)]]

\* the two assignments, and the next block's previous_hash set to the new hash
TamperedRelink(c, index, new_data) ==
    LET b == [c[index + 1] EXCEPT !.data = new_data]
        h == calculate_hash(b)
    IN  [i \in 1..Len(c) |->
            IF i = index + 1 THEN [b EXCEPT !.hash = h]
            ELSE IF i = index + 2 THEN [c[i] EXCEPT !.previous_hash = h]
            ELSE c[i]]

\* the two assignments of tamper_with_block on chain c: data, then the hash
Tampered(c, index, new_data) ==
    LET b == [c[index + 1] EXCEPT !.data = new_data] IN
    [c EXCEPT ![index + 1] = [b EXCEPT !.hash = calculate_hash(b)]]

\* Blockchain.tamper_with_block
tamper_with_block(index, new_data) ==
    /\ pc = "idle"
    /\ call' = [op |-> "tamper_with_block", index |-> index, data |-> new_data]
    /\ IF TamperOutOfRange(index, Len(chain))
       THEN /\ result' = [Running EXCEPT !.status = "raised", !.diag = "IndexError"]
            /\ chain' = chain
       ELSE /\ result' = [Running EXCEPT !.status = "returned"]
            /\ chain' = Tampered(chain, index, new_data)
    /\ UNCHANGED <<difficulty, pc, block, attempts>>

\* the index arguments tamper_with_block is called with
TamperIndexes == -1..MaxLen

Next ==
    \/ proof_of_work_retry
    \/ proof_of_work_return
    \/ \E data \in Payloads : add_block(data)
    \/ is_chain_valid
    \/ \E index \in TamperIndexes, new_data \in Payloads :
           tamper_with_block(index, new_data)

Spec == Init /\ [][Next]_vars

\* the public calls without tamper_with_block: construction and normal operation
NextNoTamper ==
    \/ proof_of_work_retry
    \/ proof_of_work_return
    \/ \E data \in Payloads : add_block(data)
    \/ is_chain_valid

SpecNoTamper == Init /\ [][NextNoTamper]_vars

\* the end-to-end scenario: Blockchain() at the default difficulty, add_block("A"),
\* add_block("B"), tamper_with_block(1, "A-modified"), is_chain_valid() at any time
InitE2E == Construct({DefaultDifficulty})

NextE2E ==
    \/ proof_of_work_retry
    \/ proof_of_work_return
    \/ Len(chain) = 1 /\ add_block(DataA)
    \/ Len(chain) = 2 /\ add_block(DataB)
    \/ Len(chain) = 3 /\ tamper_with_block(1, DataAModified)
    \/ is_chain_valid

SpecE2E == InitE2E /\ [][NextE2E]_vars

\* every block after the genesis holds the data "A" it was added with
AllOriginal == \A i \in 2..Len(chain) : chain[i].data = DataA

\* the round trip: blocks are added with "A" to an untampered chain; one block
\* at a time is tampered to "X" and then tampered back to "A"
NextRoundTrip ==
    \/ proof_of_work_retry
    \/ proof_of_work_return
    \/ AllOriginal /\ add_block(DataA)
    \/ is_chain_valid
    \/ \E index \in 1..(MaxLen - 1) :
           index < Len(chain) /\ AllOriginal /\ tamper_with_block(index, DataX)
    \/ \E index \in 1..(MaxLen - 1) :
           /\ index < Len(chain)
           /\ chain[index + 1].data = DataX
           /\ tamper_with_block(index, DataA)

SpecRoundTrip == Init /\ [][NextRoundTrip]_vars

---------------------------------------------------------------------------
(* Properties *)

\* the chain passes is_chain_valid
Valid(c, d) == Validate(c, d).valid

\* every block after the first records the hash of the block before it
Linked(c) == \A i \in 2..Len(c) : c[i].previous_hash = c[i - 1].hash

\* this step is a call tamper_with_block(index, new_data)
TamperCall(index, new_data) ==
    /\ pc = "idle"
    /\ call'.op = "tamper_with_block"
    /\ call'.index = index
    /\ call'.data = new_data

\* C1: a chain built by Blockchain(difficulty) and N >= 0 calls of add_block, with
\* no call of tamper_with_block, passes is_chain_valid (the call returns True) and
\* every block after the genesis records the hash of its predecessor.
C1_ChainLinkage ==
    pc = "idle" =>
        /\ Valid(chain, difficulty)
        /\ Linked(chain)
        /\ (call.op = "is_chain_valid" => result.valid /\ result.status = "returned")

C1_Witness ==
    /\ pc = "idle"
    /\ Len(chain) = 3
    /\ difficulty = 1
    /\ call.op = "is_chain_valid"
    /\ result.valid

\* C2 as stated: on a valid chain of at least 3 blocks, after
\* tamper_with_block(1, "X") is_chain_valid returns False.
C2_TamperDetected ==
    [][(Len(chain) >= 3 /\ Valid(chain, difficulty) /\ TamperCall(1, DataX))
          => ~Valid(chain', difficulty')]_vars

\* C2 amended: on a valid chain of at least 3 blocks, after
\* tamper_with_block(1, "X") is_chain_valid returns False whenever the call
\* changed the stored hash of block 1; when block 1 already holds the data "X"
\* the call changes nothing and is_chain_valid still returns True.
C2_TamperDetectedIfChanged ==
    [][(Len(chain) >= 3 /\ Valid(chain, difficulty) /\ TamperCall(1, DataX))
          => /\ chain'[2].hash # chain[2].hash => ~Valid(chain', difficulty')
             /\ chain[2].data = DataX => chain' = chain /\ Valid(chain', difficulty')
      ]_vars

C2_Witness ==
    /\ pc = "idle"
    /\ call = [op |-> "tamper_with_block", index |-> 1, data |-> DataX]
    /\ result.status = "returned"
    /\ Len(chain) = 3
    /\ chain[2].data = DataX
    /\ chain[3].previous_hash # chain[2].hash
    /\ StartsWith(chain[3].previous_hash, Zeros(difficulty))
    /\ ~Valid(chain, difficulty)

\* C4: tamper_with_block(index, new_data) raises IndexError whenever index <= 0
\* or index >= len(chain); the failing call leaves every block, the length of
\* the chain and the difficulty unchanged, so a valid chain stays valid.
C4_OutOfRangeTamper ==
    [][(pc = "idle" /\ call'.op = "tamper_with_block"
          /\ (call'.index <= 0 \/ call'.index >= Len(chain)))
          => /\ result'.status = "raised"
             /\ result'.diag = "IndexError"
             /\ chain' = chain
             /\ difficulty' = difficulty
             /\ Valid(chain, difficulty) => Valid(chain', difficulty')
      ]_vars

C4_Witness ==
    /\ pc = "idle"
    /\ call.op = "tamper_with_block"
    /\ call.index = 0
    /\ result.status = "raised"
    /\ Len(chain) = 3
    /\ Valid(chain, difficulty)

\* is_chain_valid has returned in the end-to-end scenario after the tampering
E2EValidatedAfterTamper ==
    /\ pc = "idle"
    /\ call.op = "is_chain_valid"
    /\ result.status = "returned"
    /\ Len(chain) = 3
    /\ chain[2].data = DataAModified

\* C3 as stated: in the end-to-end scenario, after tamper_with_block(1, "A-modified")
\* is_chain_valid returns False and the failing check is the previous_hash
\* comparison of block 2, not a check of block 1.
C3_FailsAtBlock2Link ==
    E2EValidatedAfterTamper =>
        /\ ~result.valid
        /\ result.diag = "previous_hash mismatch"
        /\ result.at = 2

\* C3 amended: in the end-to-end scenario, after tamper_with_block(1, "A-modified")
\* has changed the hash of block 1, is_chain_valid returns False at the first
\* failing check: the difficulty check of block 1 when its refreshed hash lacks
\* the "00" prefix, and the previous_hash comparison of block 2 only when the
\* refreshed hash of block 1 still has the prefix.
C3_FailsAtFirstFailingCheck ==
    (E2EValidatedAfterTamper /\ chain[3].previous_hash # chain[2].hash) =>
        /\ ~result.valid
        /\ IF StartsWith(chain[2].hash, Zeros(difficulty))
           THEN result.diag = "previous_hash mismatch" /\ result.at = 2
           ELSE result.diag = "does not satisfy difficulty" /\ result.at = 1

C3_Witness ==
    /\ E2EValidatedAfterTamper
    /\ difficulty = 2
    /\ chain[3].data = DataB
    /\ chain[3].previous_hash # chain[2].hash
    /\ ~result.valid
    /\ result.diag = "does not satisfy difficulty"
    /\ result.at = 1

\* C5: no chain with a negative difficulty exists: construction with a negative
\* difficulty fails and stores no genesis block.
C5_NoNegativeDifficulty ==
    (pc = "idle" \/ chain # <<>>) => difficulty >= 0

\* C6: when proof_of_work returns block b, b.hash starts with `difficulty` zero
\* characters and equals calculate_hash() of b's fields, final nonce included.
C6_MiningPostcondition ==
    (call.op \in {"Blockchain", "add_block"} /\ result.status = "returned") =>
        /\ StartsWith(result.block.hash, Zeros(difficulty))
        /\ result.block.hash = calculate_hash(result.block)

C6_Witness ==
    /\ call.op = "add_block"
    /\ result.status = "returned"
    /\ difficulty = 1
    /\ result.block.nonce > 0
    /\ result.block.hash[1] = Chr0

\* C7: at difficulty 0 every block, genesis included, is mined in one attempt:
\* no retry is counted and every nonce stays 0.
C7_DifficultyZeroOneAttempt ==
    difficulty = 0 =>
        /\ attempts = 0
        /\ block.nonce = 0
        /\ result.attempts = 0
        /\ result.block.nonce = 0
        /\ \A i \in 1..Len(chain) : chain[i].nonce = 0

C7_Witness ==
    /\ difficulty = 0
    /\ pc = "idle"
    /\ call.op = "add_block"
    /\ Len(chain) = 3
    /\ result.block = chain[3]
    /\ chain[3].hash[1] # Chr0

\* block i (Python index, i >= 1) of chain c passes the three checks
LinkOk(c, i) == c[i + 1].previous_hash = c[i].hash
HashOk(c, i) == c[i + 1].hash = calculate_hash(c[i + 1])
PrefixOk(c, d, i) == StartsWith(c[i + 1].hash, Zeros(d))

\* C8: is_chain_valid never raises and returns True exactly when every block
\* 1..len(chain)-1 passes the three checks (link, recomputed hash, prefix); the
\* genesis block is not checked and a chain of one block is valid.
C8_ValidIffAllChecks ==
    call.op = "is_chain_valid" =>
        /\ result.status = "returned"
        /\ result.valid <=>
               \A i \in 1..(Len(chain) - 1) :
                   LinkOk(chain, i) /\ HashOk(chain, i) /\ PrefixOk(chain, difficulty, i)
        /\ Len(chain) = 1 => result.valid

C8_Witness ==
    /\ call.op = "is_chain_valid"
    /\ result.status = "returned"
    /\ ~result.valid
    /\ Len(chain) = 3
    /\ \A i \in 1..2 : LinkOk(chain, i) /\ HashOk(chain, i)

\* C9: right after Blockchain(difficulty) the chain is one block with index 0,
\* data "Genesis Block", previous_hash "0", and a hash that equals the recomputed
\* hash and starts with `difficulty` zero characters.
C9_GenesisAfterConstruction ==
    (pc = "idle" /\ call.op = "Blockchain") =>
        /\ Len(chain) = 1
        /\ chain[1].index = 0
        /\ chain[1].data = GenesisData
        /\ chain[1].previous_hash = <<Chr0>>
        /\ chain[1].hash = calculate_hash(chain[1])
        /\ StartsWith(chain[1].hash, Zeros(difficulty))

C9_Witness ==
    /\ pc = "idle"
    /\ call.op = "Blockchain"
    /\ difficulty = 1
    /\ Len(chain) = 1
    /\ chain[1].nonce > 0

\* C10: add_block(data) lengthens the chain by one; the new last block has the
\* old length as index, the given data and the hash the old last block had at the
\* call as previous_hash; it is the block returned, and no earlier block changes.
C10_AddBlockAppends ==
    [][/\ (pc = "idle" /\ pc' = "pow") =>
             /\ call'.op = "add_block"
             /\ chain' = chain
             /\ block'.index = Len(chain)
             /\ block'.data = call'.data
             /\ block'.previous_hash = chain[Len(chain)].hash
       /\ (pc = "pow" /\ pc' = "pow") =>
             /\ chain' = chain
             /\ block'.index = block.index
             /\ block'.data = block.data
             /\ block'.previous_hash = block.previous_hash
       /\ (pc = "pow" /\ pc' = "idle" /\ call.op = "add_block") =>
             /\ Len(chain') = Len(chain) + 1
             /\ \A i \in 1..Len(chain) : chain'[i] = chain[i]
             /\ chain'[Len(chain')] = result'.block
             /\ result'.status = "returned"
             /\ result'.block.index = Len(chain)
             /\ result'.block.data = call.data
             /\ result'.block.previous_hash = chain[Len(chain)].hash
      ]_vars

C10_Witness ==
    /\ pc = "idle"
    /\ call.op = "add_block"
    /\ result.status = "returned"
    /\ Len(chain) = 3
    /\ result.block = chain[3]
    /\ chain[3].index = 2
    /\ chain[3].data = call.data
    /\ chain[3].previous_hash = chain[2].hash
    /\ chain[3].nonce > 0

\* C11: in every state reached by construction and any interleaving of
\* add_block, tamper_with_block (successful or failing) and is_chain_valid, block
\* i has index i and the genesis block has previous_hash "0", valid chain or not.
C11_IndexesAndGenesisLink ==
    /\ \A i \in 1..Len(chain) : chain[i].index = i - 1
    /\ chain # <<>> => chain[1].previous_hash = <<Chr0>>

C11_Witness ==
    /\ pc = "idle"
    /\ Len(chain) = 3
    /\ ~Valid(chain, difficulty)
    /\ chain[2].data # chain[3].data
    /\ call.op = "tamper_with_block"
    /\ result.status = "raised"
    /\ \A i \in 1..3 : chain[i].index = i - 1

\* C13: at every operation boundary each block's stored hash equals
\* calculate_hash() of its current fields, also after a successful
\* tamper_with_block, which refreshes the hash.
C13_StoredHashIsFresh ==
    pc = "idle" => \A i \in 1..Len(chain) : chain[i].hash = calculate_hash(chain[i])

C13_Witness ==
    /\ pc = "idle"
    /\ call.op = "tamper_with_block"
    /\ result.status = "returned"
    /\ Len(chain) = 3
    /\ chain[2].data = call.data
    /\ chain[3].previous_hash # chain[2].hash
    /\ chain[2].hash = calculate_hash(chain[2])
    /\ chain[2].nonce > 0

\* C14: a successful tamper_with_block(index, new_data) changes only
\* chain[index].data and chain[index].hash: the target's other fields, every other
\* block, the length and the difficulty are unchanged, and nothing is mined.
C14_TamperFrame ==
    [][(pc = "idle" /\ call'.op = "tamper_with_block"
          /\ 0 < call'.index /\ call'.index < Len(chain))
          => LET k == call'.index + 1 IN
             /\ result'.status = "returned"
             /\ Len(chain') = Len(chain)
             /\ \A i \in 1..Len(chain) : i # k => chain'[i] = chain[i]
             /\ chain'[k].data = call'.data
             /\ chain'[k].hash = calculate_hash(chain'[k])
             /\ chain'[k].nonce = chain[k].nonce
             /\ chain'[k].index = chain[k].index
             /\ chain'[k].timestamp = chain[k].timestamp
             /\ chain'[k].previous_hash = chain[k].previous_hash
             /\ difficulty' = difficulty
             /\ pc' = "idle" /\ block' = block /\ attempts' = attempts
      ]_vars

C14_Witness ==
    /\ pc = "idle"
    /\ call.op = "tamper_with_block"
    /\ call.index = 1
    /\ result.status = "returned"
    /\ Len(chain) = 3
    /\ chain[2].data = call.data
    /\ chain[3].previous_hash # chain[2].hash
    /\ chain[3].hash = calculate_hash(chain[3])
    /\ StartsWith(chain[3].hash, Zeros(difficulty))
    /\ difficulty = 1

\* block b with nonce n hashes to a digest that has the target prefix
Qualifies(b, n) ==
    StartsWith(calculate_hash([b EXCEPT !.nonce = n]), Zeros(difficulty))

\* C15: proof_of_work tries the nonces in increasing order from the block's
\* nonce (0 for a fresh block), one increment per failed attempt, and returns
\* with the smallest nonce whose hash has the prefix; it changes only the
\* block's nonce and hash.
C15_SmallestNonce ==
    /\ [](pc = "pow" =>
            /\ block.nonce = attempts
            /\ \A n \in 0..(block.nonce - 1) : ~Qualifies(block, n))
    /\ []((call.op \in {"Blockchain", "add_block"} /\ result.status = "returned") =>
            /\ result.block.nonce = result.attempts
            /\ Qualifies(result.block, result.block.nonce)
            /\ \A n \in 0..(result.block.nonce - 1) : ~Qualifies(result.block, n))
    /\ [][/\ (pc = "idle" /\ pc' = "pow") => block'.nonce = 0
          /\ (pc = "pow" /\ pc' = "pow") =>
                /\ block'.nonce = block.nonce + 1
                /\ attempts' = attempts + 1
                /\ [block' EXCEPT !.nonce = 0, !.hash = <<>>]
                       = [block EXCEPT !.nonce = 0, !.hash = <<>>]
          /\ (pc = "pow" /\ pc' = "idle") =>
                /\ result'.block.nonce = block.nonce
                /\ [result'.block EXCEPT !.hash = <<>>] = [block EXCEPT !.hash = <<>>]
         ]_vars

C15_Witness ==
    /\ pc = "idle"
    /\ call.op = "add_block"
    /\ result.status = "returned"
    /\ difficulty = 1
    /\ result.block.nonce > 2
    /\ result.attempts = result.block.nonce
    /\ Qualifies(result.block, result.block.nonce)
    /\ ~Qualifies(result.block, result.block.nonce - 1)

\* C16: at difficulty 0, on a chain that passes is_chain_valid, a successful
\* tamper_with_block on the last block, whatever the new data, leaves
\* is_chain_valid returning True: the tampering is not detected.
C16_TailTamperUndetected ==
    [][(pc = "idle" /\ difficulty = 0 /\ Valid(chain, difficulty)
          /\ call'.op = "tamper_with_block"
          /\ call'.index = Len(chain) - 1 /\ call'.index > 0)
          => /\ result'.status = "returned"
             /\ chain'[Len(chain)].data = call'.data
             /\ Valid(chain', difficulty')
      ]_vars

C16_Witness ==
    /\ pc = "idle"
    /\ difficulty = 0
    /\ call.op = "tamper_with_block"
    /\ call.index = 2
    /\ result.status = "returned"
    /\ Len(chain) = 3
    /\ chain[3].data = call.data
    /\ chain[3].hash[1] # Chr0
    /\ Valid(chain, difficulty)

\* C17: once is_chain_valid returns False, no step of add_block (nor of
\* is_chain_valid) makes it return True again: add_block appends to the invalid
\* chain without repairing it; only tamper_with_block can end the invalidity.
C17_InvalidityPersists ==
    [][(call'.op # "tamper_with_block" /\ ~Valid(chain, difficulty))
          => ~Valid(chain', difficulty')]_vars

C17_Witness ==
    /\ pc = "idle"
    /\ call.op = "add_block"
    /\ result.status = "returned"
    /\ Len(chain) = 3
    /\ result.block = chain[3]
    /\ chain[3].previous_hash = chain[2].hash
    /\ ~Valid(chain, difficulty)

\* C19: once construction has returned, no call changes the genesis block: its
\* six fields keep the values mining left in them and it stays at position 0.
C19_GenesisFrozen ==
    [][/\ (chain = <<>> /\ chain' # <<>>) =>
             /\ chain'[1] = result'.block
             /\ chain'[1].index = 0
       /\ chain # <<>> =>
             /\ chain' # <<>>
             /\ chain'[1] = chain[1]
      ]_vars

C19_Witness ==
    /\ pc = "idle"
    /\ Len(chain) = 3
    /\ call.op = "tamper_with_block"
    /\ result.status = "returned"
    /\ ~Valid(chain, difficulty)
    /\ chain[1].index = 0
    /\ chain[1].data = GenesisData
    /\ chain[1].nonce > 0
    /\ chain[1].hash = calculate_hash(chain[1])

\* C18: on a valid chain, tamper_with_block(i, d2) followed by
\* tamper_with_block(i, d1) with d1 the block's original data restores every
\* field of every block, chain[i].hash included, and is_chain_valid returns
\* True again.
C18_TamperRoundTrip ==
    /\ [][(pc = "idle" /\ AllOriginal /\ Valid(chain, difficulty)
             /\ call'.op = "tamper_with_block" /\ call'.data = DataX)
             => LET i == call'.index
                    back == Tampered(chain', i, chain[i + 1].data)
                IN  /\ result'.status = "returned"
                    /\ chain'[i + 1].data = DataX
                    /\ back = chain
                    /\ Valid(back, difficulty')
         ]_vars
    /\ []((pc = "idle" /\ AllOriginal) =>
            /\ Valid(chain, difficulty)
            /\ (call.op = "is_chain_valid" => result.valid))

C18_Witness ==
    /\ pc = "idle"
    /\ call.op = "tamper_with_block"
    /\ call.data = DataA
    /\ result.status = "returned"
    /\ difficulty = 1
    /\ Len(chain) = 3
    /\ AllOriginal
    /\ chain[call.index + 1].nonce > 0
    /\ Valid(chain, difficulty)

====
